---- MODULE Spec2Model ----
(***************************************************************************)
(* A model of pyphi's system irreducibility analysis                       *)
(* (src/pyphi/new_big_phi/__init__.py): evaluate_partition(), the          *)
(* short-circuiting parallel map over the candidate partitions, and the    *)
(* one-pass minimization with tie tracking in sia().                       *)
(*                                                                         *)
(* Numbers.  Phi values are floats in the program.  Here they are integers *)
(* counted in units of EPSILON, the absolute tolerance of the program's    *)
(* phi comparison (utils.phi_eq).  Phi values are drawn from the multiples *)
(* of 2 and normalization factors are 1/1 and 1/2, so that phi * factor is *)
(* exact; a normalization factor 1/d is represented by its denominator d.  *)
(*                                                                         *)
(* Objects.  Every SIA is an object with an identity: 0 is the null SIA    *)
(* built by _null_sia(), i >= 1 is the SIA of the i-th result that the     *)
(* executor delivered.  Python lists are objects too: `lists` is the heap  *)
(* of list objects, a list's identity is its index there, and an SIA's     *)
(* _ties attribute holds such an identity (0 when the attribute does not   *)
(* exist).                                                                 *)
(*                                                                         *)
(* Specifications.  Spec is one call of sia() from the candidates on, with *)
(* the caller's reads of .ties and to_json() after it.  SpecResolve is one *)
(* call of resolve() (src/pyphi/resolve_ties.py) and the iteration of its  *)
(* generator, SpecCompose one call of phi_structure() and the first read   *)
(* of big_phi, SpecComplex one call of maximal_complex(), SpecPart the     *)
(* choice of the candidate partitions at the entry of sia(), SpecNode the  *)
(* construction and mutation of two Node objects (src/pyphi/node.py).  In  *)
(* each, the variables of the other operations stay at their idle values.  *)
(***************************************************************************)
EXTENDS Integers, Sequences, FiniteSets, TLC

\* ---------------------------------------------------------------- bounds
\* The largest number of candidate partitions handed to sia().
MaxParts == 3
\* Phi values per direction are 2 * i for i in 0..MaxPhi.
MaxPhi == 1
\* The largest number of objects handed to resolve().
MaxObjs == 2
\* The largest number of strategies in a list of strategies.
MaxChain == 2
\* The number of distinctions there are.
MaxDist == 2
\* The largest number of reachable subsystems of a network.
MaxSubsystems == 3
\* The largest number of reads of sum_phi_relations on one PhiStructure.
MaxReads == 2

\* ------------------------------------------------------------- constants
\* constants.EPSILON, the absolute tolerance of phi_eq: the unit of the model.
EPSILON == 1
\* float("inf"), the first component of the initial mip_key.
PosInf == 1000

NegInf == 0 - PosInf

\* The phi value of a missing (None) cause or effect result.
NoneRIA == 0 - 1

PhiVals == {2 * i : i \in 0..MaxPhi}

\* Intrinsic information of the intact system in one direction.
IIVals == {0 - 2, 0, 2}

Directions == {"CAUSE", "EFFECT"}

\* Direction.both()
DirectionBoth == {"CAUSE", "EFFECT"}

\* The directions argument left at its default, None.
NoneArg == {"None"}

DirectionsArgs == {NoneArg, {"CAUSE"}, {"EFFECT"}}

\* partition = None of a null SIA.
NonePartition == [from_nodes |-> 0, to_nodes |-> 0, own |-> 0]

\* The candidate partitions: the sizes of from_nodes and to_nodes, and the
\* denominator of the partition's own normalization_factor() (0 when the
\* partition has no such method).  The first is a Cut of a 3-node system
\* (factor 1/2), the second a partition that supplies its own factor 1.
Partitions ==
    { [from_nodes |-> 1, to_nodes |-> 2, own |-> 0],
      [from_nodes |-> 2, to_nodes |-> 2, own |-> 1] }

VARIABLES
    pc,            \* position of the sia() call
    nparts,        \* size of the candidate partition space of the call
    directions,    \* the directions argument of the call
    system_state,  \* intrinsic information of the intact system per direction
    launched,      \* executor: evaluate_partition() invocations so far
    running,       \* executor: evaluations in flight
    shortcircuit,  \* executor: a falsy result has been delivered
    sias,          \* the results (SIA identities) in delivery order
    obj,           \* the SIA objects that exist, by identity
    lists,         \* the heap of list objects (tie lists)
    idx,           \* fold: position of the next result in sias
    mip_sia,       \* fold: identity of the current best SIA
    mip_key,       \* fold: key of the current best SIA
    ties,          \* fold: identity of the current tie list
    result,        \* identity of the SIA that sia() returned
    json,          \* outcome of to_json() on the returned SIA
    r_args,        \* resolve(): the arguments of the call
    r_state,       \* resolve(): state of the generator object
    r_pending,     \* resolve(): the objects the generator has still to yield
    r_out,         \* resolve(): the objects yielded so far
    r_error,       \* resolve(): the exception raised, "" when none
    r_calls,       \* resolve(): invocations of scoring functions
    c_pc,          \* phi_structure(): position in the function
    c_args,        \* phi_structure(): the arguments and what the external
                   \* computations would return
    c_sia,         \* phi_structure(): the local variable sia
    c_dist,        \* phi_structure(): the local variable distinctions
    c_rel,         \* phi_structure(): the local variable relations
    c_big_phi,     \* PhiStructure: the attribute _big_phi, NoResult if unset
    c_sum_d,       \* PhiStructure: the attribute _sum_phi_distinctions,
                   \* NoResult if unset
    c_calls,       \* PhiStructure: how often sum(distinctions.phis) and
                   \* relations.sum_phi() were invoked
    m_sias,        \* maximal_complex(): phi of the SIA of each reachable
                   \* subsystem, in the order all_complexes() yields them
    m_pos,         \* maximal_complex(): number of SIAs pulled so far
    m_best,        \* maximal_complex(): position of max()'s current maximum
    m_result,      \* maximal_complex(): position of the SIA returned, 0 for
                   \* the NullPhiStructure, NoResult before the return
    p_pc,          \* sia() entry: position in the function
    p_args,        \* sia() entry: the arguments and the subsystem
    p_filter,      \* sia() entry: the local variable filter_func
    p_cands,       \* sia() entry: the local variable partitions
    p_evaluated,   \* sia() entry: what evaluate_partition was mapped over
    n_nodes,       \* Node: the Node objects a and b, NoNode before they exist
    n_last         \* Node: the last call of generate_nodes() and Node()

siaVars == << pc, nparts, directions, system_state, launched, running,
              shortcircuit, sias, obj, lists, idx, mip_sia, mip_key, ties,
              result >>

resolveVars == << r_args, r_state, r_pending, r_out, r_error, r_calls >>

composeVars ==
    << c_pc, c_args, c_sia, c_dist, c_rel, c_big_phi, c_sum_d, c_calls >>

complexVars == << m_sias, m_pos, m_best, m_result >>

partVars == << p_pc, p_args, p_filter, p_cands, p_evaluated >>

nodeVars == << n_nodes, n_last >>

vars ==
    << siaVars, json, resolveVars, composeVars, complexVars, partVars,
       nodeVars >>

\* What an operation of sia() leaves alone outside sia()'s own state.
outsideSia ==
    << json, resolveVars, composeVars, complexVars, partVars, nodeVars >>

\* What an operation of resolve() leaves alone outside its own state.
outsideResolve ==
    << siaVars, json, composeVars, complexVars, partVars, nodeVars >>

\* What an operation of phi_structure() leaves alone outside its own state.
outsideCompose ==
    << siaVars, json, resolveVars, complexVars, partVars, nodeVars >>

\* What maximal_complex() leaves alone outside its own state.
outsideComplex ==
    << siaVars, json, resolveVars, composeVars, partVars, nodeVars >>

\* What the entry of sia() leaves alone outside its own state.
\* What an operation on a Node leaves alone outside the Nodes.
outsideNode ==
    << siaVars, json, resolveVars, composeVars, complexVars, partVars >>

outsidePart ==
    << siaVars, json, resolveVars, composeVars, complexVars, nodeVars >>

NoResult == 0 - 1

\* ------------------------------------------------------------ pure parts

Abs(x) == IF x < 0 THEN 0 - x ELSE x

Min(S) == CHOOSE x \in S : \A y \in S : x <= y

Range(s) == {s[i] : i \in DOMAIN s}

\* utils.phi_eq: equality up to the fixed absolute tolerance.
phi_eq(x, y) == Abs(x - y) <= EPSILON

\* PyPhiFloat.__lt__: strictly less and not equal up to the tolerance.
PyPhiFloat_lt(x, y) == x < y /\ ~phi_eq(x, y)

\* utils.is_positive on a PyPhiFloat.
is_positive(x) == PyPhiFloat_lt(0, x)

\* conf.fallback: the first argument unless it is None.
fallback(value, default) == IF value = NoneArg THEN default ELSE value

\* Python's comparison of 2-tuples: the first component where the two are
\* not == decides; the components are PyPhiFloats.
TupleEq_exact(a, b) == a = b

TupleEq(a, b) == phi_eq(a[1], b[1]) /\ phi_eq(a[2], b[2])

TupleLt(a, b) ==
    IF ~phi_eq(a[1], b[1]) THEN PyPhiFloat_lt(a[1], b[1])
    ELSE IF ~phi_eq(a[2], b[2]) THEN PyPhiFloat_lt(a[2], b[2])
    ELSE FALSE

TupleLe(a, b) == TupleLt(a, b) \/ TupleEq(a, b)

\* --------------------------------------------------- partition evaluator

\* Mutant of normalization_factor: the partition's own factor is ignored.
normalization_factor_default_only(partition) ==
    partition.from_nodes * partition.to_nodes

\* normalization_factor(): the denominator d of the factor 1/d.  The
\* partition's own method when it has one, else |from_nodes| * |to_nodes|.
normalization_factor(partition) ==
    IF partition.own # 0 THEN partition.own
    ELSE partition.from_nodes * partition.to_nodes

\* Mutant of evaluate_partition: phi is the minimum over both directions
\* whatever directions were requested.
evaluate_partition_both(partition, integration, dirs) ==
    LET phi == Min({integration[d] : d \in DirectionBoth})
    IN  [ phi |-> phi,
          normalized_phi |-> phi \div normalization_factor(partition),
          cause |-> integration["CAUSE"],
          effect |-> integration["EFFECT"],
          partition |-> partition,
          reasons |-> << >>,
          ties_attr |-> 0 ]

\* evaluate_partition(): integration[d] is the phi of integration_value()
\* in direction d, computed for both directions whatever `dirs` is.
evaluate_partition(partition, integration, dirs) ==
    LET requested == fallback(dirs, DirectionBoth)
        phi == Min({integration[d] : d \in requested})
        norm == normalization_factor(partition)
    IN  [ phi |-> phi,
          normalized_phi |-> phi \div norm,
          cause |-> integration["CAUSE"],
          effect |-> integration["EFFECT"],
          partition |-> partition,
          reasons |-> << >>,
          ties_attr |-> 0 ]

\* SystemIrreducibilityAnalysis.__bool__
sia_bool(s) == is_positive(s.phi)

\* utils.is_falsy, the short-circuit test of the parallel map.
is_falsy(s) == ~sia_bool(s)

\* ------------------------------------------------------------ minimizer

\* Mutant of has_no_cause_or_effect: `< 0` in place of `<= 0`.
has_no_cause_or_effect_strict(ss) ==
    (IF ss["CAUSE"] < 0 THEN << "NO_CAUSE" >> ELSE << >>)
    \o (IF ss["EFFECT"] < 0 THEN << "NO_EFFECT" >> ELSE << >>)

\* _has_no_cause_or_effect(): the reasons, in the order of Direction.both().
has_no_cause_or_effect(ss) ==
    (IF ss["CAUSE"] <= 0 THEN << "NO_CAUSE" >> ELSE << >>)
    \o (IF ss["EFFECT"] <= 0 THEN << "NO_EFFECT" >> ELSE << >>)

\* _null_sia() / NullSystemIrreducibilityAnalysis.__init__
null_sia(reasons) ==
    [ phi |-> 0,
      normalized_phi |-> 0,
      cause |-> NoneRIA,
      effect |-> NoneRIA,
      partition |-> NonePartition,
      reasons |-> reasons,
      ties_attr |-> 0 ]

\* default_sia of sia()
default_sia == null_sia(<< "NO_VALID_PARTITIONS" >>)

sia_minimization_key(s) == << s.normalized_phi, 0 - s.phi >>

\* The fold's state before the first result: mip_sia, mip_key, ties.
initial_mip_key == << PosInf, NegInf >>

\* Mutant of initial_ties: the fold starts from an empty tie list.
initial_ties_empty == << >>

\* ties = [default_sia]
initial_ties == << 0 >>

\* One iteration of the fold over the results: candidate c with key k
\* against the fold state st.  `fresh` says that ties is a new list object.
fold_body(st, c, k) ==
    IF TupleLt(k, st.mip_key)
    THEN [mip_sia |-> c, mip_key |-> k, ties |-> << c >>, fresh |-> TRUE]
    ELSE IF TupleEq(k, st.mip_key)
    THEN [st EXCEPT !.ties = Append(@, c), !.fresh = FALSE]
    ELSE [st EXCEPT !.fresh = FALSE]

\* Mutant of set_ties_loop: only the first SIA of the list gets the list.
set_ties_loop_first(o, members, id) ==
    [s \in DOMAIN o |->
        IF members # << >> /\ s = Head(members)
        THEN [o[s] EXCEPT !.ties_attr = id] ELSE o[s]]

\* Mutant of set_ties_loop: every SIA that exists gets the list.
set_ties_loop_all(o, members, id) ==
    [s \in DOMAIN o |-> [o[s] EXCEPT !.ties_attr = id]]

\* The loop `for tied_mip in ties: tied_mip.set_ties(ties)`.
set_ties_loop(o, members, id) ==
    [s \in DOMAIN o |->
        IF s \in Range(members) THEN [o[s] EXCEPT !.ties_attr = id] ELSE o[s]]

\* The list the ties property creates when _ties does not exist.
ties_default(s) == << s >>

\* The whole fold of sia() lines 337-347 over the results `seq` (SIA
\* identities in delivery order), from the fold state st.
RECURSIVE fold_from(_, _, _)
fold_from(st, seq, o) ==
    IF seq = << >> THEN st
    ELSE fold_from(fold_body(st, Head(seq), sia_minimization_key(o[Head(seq)])),
                   Tail(seq), o)

fold_all(seq, o) ==
    fold_from([mip_sia |-> 0, mip_key |-> initial_mip_key,
               ties |-> initial_ties, fresh |-> TRUE], seq, o)

\* SystemIrreducibilityAnalysis.ties: the list a read of s.ties returns.
ties_property(s) ==
    IF obj[s].ties_attr = 0 THEN ties_default(s) ELSE lists[obj[s].ties_attr]

\* The instance dictionary of an SIA: the dataclass fields, and _ties once
\* the attribute has been set.
instance_dict(s) ==
    {"phi", "partition", "normalized_phi", "cause", "effect", "reasons"}
    \cup (IF s.ties_attr # 0 THEN {"_ties"} ELSE {})

NoJson == [status |-> "none", dct |-> {}]

\* to_json(), lines 143-149: copy the dictionary, delete the key "_ties"
\* from the copy and return the copy; deleting a missing key raises.
to_json(s) ==
    IF "_ties" \in instance_dict(s)
    THEN [status |-> "returned", dct |-> instance_dict(s) \ {"_ties"}]
    ELSE [status |-> "KeyError", dct |-> {}]

\* ----------------------------------------------------------------- state

SiaInit ==
    /\ pc = "start"
    /\ nparts \in 0..MaxParts
    /\ directions \in DirectionsArgs
    /\ system_state \in [Directions -> IIVals]
    /\ launched = 0
    /\ running = 0
    /\ shortcircuit = FALSE
    /\ sias = << >>
    /\ obj = << >>
    /\ lists = << >>
    /\ idx = 0
    /\ mip_sia = NoResult
    /\ mip_key = initial_mip_key
    /\ ties = 0
    /\ result = NoResult
    /\ json = NoJson

\* sia(), lines 304-316: the intact system has no cause or no effect.
ReturnNull ==
    /\ pc = "start"
    /\ has_no_cause_or_effect(system_state) # << >>
    /\ obj' = (0 :> null_sia(has_no_cause_or_effect(system_state)))
    /\ result' = 0
    /\ pc' = "done"
    /\ UNCHANGED << nparts, directions, system_state, launched, running,
                    shortcircuit, sias, lists, idx, mip_sia, mip_key, ties >>
    /\ UNCHANGED outsideSia

\* sia(), lines 318-333: build default_sia and start the parallel map.
StartMap ==
    /\ pc = "start"
    /\ has_no_cause_or_effect(system_state) = << >>
    /\ obj' = (0 :> default_sia)
    /\ pc' = "map"
    /\ UNCHANGED << nparts, directions, system_state, launched, running,
                    shortcircuit, sias, lists, idx, mip_sia, mip_key, ties,
                    result >>
    /\ UNCHANGED outsideSia

\* The executor hands the next partition to a worker, which invokes
\* evaluate_partition() on it.  Nothing is launched after a short-circuit.
Dispatch ==
    /\ pc = "map"
    /\ ~shortcircuit
    /\ launched < nparts
    /\ launched' = launched + 1
    /\ running' = running + 1
    /\ UNCHANGED << pc, nparts, directions, system_state, shortcircuit,
                    sias, obj, lists, idx, mip_sia, mip_key, ties, result >>
    /\ UNCHANGED outsideSia

\* A worker finishes the evaluation of its partition: the SIA is
\* delivered, and a falsy one short-circuits the map.
Complete ==
    /\ pc = "map"
    /\ running > 0
    /\ \E partition \in Partitions, integration \in [Directions -> PhiVals] :
          LET s == evaluate_partition(partition, integration, directions)
              i == Len(sias) + 1
          IN  /\ obj' = obj @@ (i :> s)
              /\ sias' = Append(sias, i)
              /\ shortcircuit' = (shortcircuit \/ is_falsy(s))
    /\ running' = running - 1
    /\ UNCHANGED << pc, nparts, directions, system_state, launched, lists,
                    idx, mip_sia, mip_key, ties, result >>
    /\ UNCHANGED outsideSia

\* After a short-circuit the result of an in-flight evaluation may be dropped.
Cancel ==
    /\ pc = "map"
    /\ shortcircuit
    /\ running > 0
    /\ running' = running - 1
    /\ UNCHANGED << pc, nparts, directions, system_state, launched,
                    shortcircuit, sias, obj, lists, idx, mip_sia, mip_key,
                    ties, result >>
    /\ UNCHANGED outsideSia

\* run() returns; sia() lines 337-339 set up the fold.
StartFold ==
    /\ pc = "map"
    /\ running = 0
    /\ shortcircuit \/ launched = nparts
    /\ mip_sia' = 0
    /\ mip_key' = initial_mip_key
    /\ lists' = Append(lists, initial_ties)
    /\ ties' = Len(lists) + 1
    /\ idx' = 1
    /\ pc' = "fold"
    /\ UNCHANGED << nparts, directions, system_state, launched, running,
                    shortcircuit, sias, obj, result >>
    /\ UNCHANGED outsideSia

\* sia() lines 340-347: one iteration of the fold.
FoldStep ==
    /\ pc = "fold"
    /\ idx <= Len(sias)
    /\ LET c == sias[idx]
           st == [mip_sia |-> mip_sia, mip_key |-> mip_key,
                  ties |-> lists[ties], fresh |-> FALSE]
           nx == fold_body(st, c, sia_minimization_key(obj[c]))
       IN  /\ mip_sia' = nx.mip_sia
           /\ mip_key' = nx.mip_key
           /\ IF nx.fresh
              THEN /\ lists' = Append(lists, nx.ties)
                   /\ ties' = Len(lists) + 1
              ELSE /\ lists' = [lists EXCEPT ![ties] = nx.ties]
                   /\ ties' = ties
    /\ idx' = idx + 1
    /\ UNCHANGED << pc, nparts, directions, system_state, launched, running,
                    shortcircuit, sias, obj, result >>
    /\ UNCHANGED outsideSia

\* sia() lines 348-350: attach the tie list to its members and return.
Return ==
    /\ pc = "fold"
    /\ idx > Len(sias)
    /\ obj' = set_ties_loop(obj, lists[ties], ties)
    /\ result' = mip_sia
    /\ pc' = "done"
    /\ UNCHANGED << nparts, directions, system_state, launched, running,
                    shortcircuit, sias, lists, idx, mip_sia, mip_key, ties >>
    /\ UNCHANGED outsideSia

\* The caller reads .ties of the returned SIA, which has no _ties yet: the
\* property creates the list [self] and stores it.  (After sia() returns,
\* the caller holds the returned SIA and, through its tie list, the tied
\* ones; these have _ties already when the fold ran.)
ReadTies ==
    /\ pc = "done"
    /\ obj[result].ties_attr = 0
    /\ lists' = Append(lists, ties_default(result))
    /\ obj' = [obj EXCEPT ![result].ties_attr = Len(lists) + 1]
    /\ UNCHANGED << pc, nparts, directions, system_state, launched, running,
                    shortcircuit, sias, idx, mip_sia, mip_key, ties, result >>
    /\ UNCHANGED outsideSia

\* The caller serializes the SIA that sia() returned.
ToJson ==
    /\ pc = "done"
    /\ json = NoJson
    /\ json' = to_json(obj[result])
    /\ UNCHANGED siaVars
    /\ UNCHANGED << resolveVars, composeVars, complexVars, partVars >>
    /\ UNCHANGED nodeVars

\* --------------------------------------------------------- tie resolution
\* resolve_ties.py.  A candidate object is a record of the attributes the
\* scoring functions read.  The phi values of the candidates differ by more
\* than the tolerance, so the comparison of keys is the exact one.  The phi
\* "1" of an example is 2 here (two units of EPSILON stand for it).

Candidate(n, p, s, np, has, info) ==
    [name |-> n, phi |-> p, purview |-> s, normalized_phi |-> np,
     partitioned_repertoire |-> has, pmi |-> info]

CandA == Candidate("A", 2, 2, 2, TRUE, 2)
CandB == Candidate("B", 2, 3, 0, FALSE, 0)
CandC == Candidate("C", 4, 2, 4, TRUE, 4)
Candidates == {CandA, CandB, CandC}

\* The object a caller passes as default, and the NO_DEFAULT sentinel.
DefaultObj == Candidate("D", 0, 0, 0, FALSE, 0)
NO_DEFAULT == Candidate("NO_DEFAULT", 0, 0, 0, FALSE, 0)

\* The names registered in tie_resolution_strategies.
Registered ==
    {"MAX_INFORMATIVENESS", "PURVIEW_SIZE", "NEGATIVE_PURVIEW_SIZE", "PHI",
     "NEGATIVE_PHI", "NORMALIZED_PHI", "NEGATIVE_NORMALIZED_PHI", "NONE"}

\* The strategy names a caller passes here; "BOGUS" is not registered.
StrategyNames ==
    {"PHI", "PURVIEW_SIZE", "NEGATIVE_PURVIEW_SIZE", "NONE", "BOGUS"}

SeqsUpTo(S, n) == UNION {[1..k -> S] : k \in 0..n}

\* A strategy argument is a bare string or a list of strings.
StrategyArgs ==
    {[bare |-> TRUE, names |-> << n >>] : n \in StrategyNames}
    \cup {[bare |-> FALSE, names |-> q] :
             q \in SeqsUpTo(StrategyNames, MaxChain) \ {<< >>}}

\* The value a registered scoring function returns, lines 22-60 (NONE
\* returns nothing: see score_raises).
score_unsigned(name, m) ==
    CASE name = "MAX_INFORMATIVENESS" ->
             IF m.partitioned_repertoire THEN m.pmi ELSE 0
      [] name = "PURVIEW_SIZE" -> m.purview
      [] name = "NEGATIVE_PURVIEW_SIZE" -> m.purview
      [] name = "PHI" -> m.phi
      [] name = "NEGATIVE_PHI" -> m.phi
      [] name = "NORMALIZED_PHI" -> m.normalized_phi
      [] name = "NEGATIVE_NORMALIZED_PHI" -> m.normalized_phi
      [] OTHER -> 0

score(name, m) ==
    CASE name = "MAX_INFORMATIVENESS" ->
             IF m.partitioned_repertoire THEN m.pmi ELSE 0
      [] name = "PURVIEW_SIZE" -> m.purview
      [] name = "NEGATIVE_PURVIEW_SIZE" -> 0 - m.purview
      [] name = "PHI" -> m.phi
      [] name = "NEGATIVE_PHI" -> 0 - m.phi
      [] name = "NORMALIZED_PHI" -> m.normalized_phi
      [] name = "NEGATIVE_NORMALIZED_PHI" -> 0 - m.normalized_phi
      [] OTHER -> 0

\* The exception that looking up and invoking one strategy raises.
score_raises_unregistered(name) ==
    IF name \notin Registered THEN "KeyError" ELSE ""

score_raises(name) ==
    IF name \notin Registered THEN "KeyError"
    ELSE IF name = "NONE" THEN "NotImplementedError"
    ELSE ""

\* isinstance(strategies, str): a bare string becomes a one-element list.
strategy_list(strategy) == strategy.names

\* The positions of the strategies whose evaluation raises.
Raising(names) == {i \in DOMAIN names : score_raises(names[i]) # ""}

\* sort_key(obj): the tuple is built left to right and the first strategy
\* that raises ends it.  error is the exception, score the number of scoring
\* functions invoked and none the number of invocations of NONE's.
sort_key_outcome(names, m) ==
    LET last    == IF Raising(names) = {} THEN Len(names)
                   ELSE Min(Raising(names))
        invoked == {i \in 1..last : names[i] \in Registered}
    IN  [error |-> IF Raising(names) = {} THEN ""
                   ELSE score_raises(names[last]),
         score |-> Cardinality(invoked),
         none  |-> Cardinality({i \in invoked : names[i] = "NONE"})]

sort_key(names, m) == [i \in DOMAIN names |-> score(names[i], m)]

\* Python's comparison of two tuples of numbers of the same length.
RECURSIVE KeyLt(_, _)
KeyLt(a, b) ==
    IF a = << >> \/ b = << >> THEN FALSE
    ELSE IF Head(a) # Head(b) THEN Head(a) < Head(b)
    ELSE KeyLt(Tail(a), Tail(b))

\* all_maxima / all_minima over (key, object) pairs: every pair whose key
\* is extremal, in the order of the input; the default when there is none.
Extremal(operation, pairs, i) ==
    \A j \in DOMAIN pairs :
        IF operation = "all_maxima"
        THEN ~KeyLt(pairs[i].key, pairs[j].key)
        ELSE ~KeyLt(pairs[j].key, pairs[i].key)

RECURSIVE SelectSeq2(_, _, _)
SelectSeq2(operation, pairs, i) ==
    IF i > Len(pairs) THEN << >>
    ELSE (IF Extremal(operation, pairs, i) THEN << pairs[i] >> ELSE << >>)
         \o SelectSeq2(operation, pairs, i + 1)

all_extrema(operation, pairs, default) ==
    IF pairs # << >> THEN SelectSeq2(operation, pairs, 1)
    ELSE IF default.obj = NO_DEFAULT THEN << >>
    ELSE << default >>

\* iter_with_default(objects, default): the objects, or the default when
\* there are none.
iter_with_default(objects, default) ==
    IF objects = << >> /\ default # NO_DEFAULT THEN << default >>
    ELSE objects

\* resolve(), line 84: the test for the sentinel.  A list is never equal to
\* the string "NONE".
is_none_sentinel_never(strategy) == FALSE

is_none_sentinel_listed(strategy) ==
    \E i \in DOMAIN strategy.names : strategy.names[i] = "NONE"

is_none_sentinel(strategy) == strategy.bare /\ strategy.names = << "NONE" >>

\* resolve(), line 88-89: zip(keys, objects).
zip_keys(names, objects) ==
    [i \in DOMAIN objects |-> [key |-> sort_key(names, objects[i]),
                                obj |-> objects[i]]]

\* resolve(), lines 90-91: the default becomes a (key, object) pair; the
\* sentinel stays as it is (it is shown here as a pair without a key).
wrap_default(names, default) ==
    IF default # NO_DEFAULT
    THEN [key |-> sort_key(names, default), obj |-> default]
    ELSE [key |-> << >>, obj |-> NO_DEFAULT]

\* resolve(), lines 93-94: the objects of the winning pairs.
unzip_objects_pairs(pairs) == pairs

unzip_objects(pairs) == [i \in DOMAIN pairs |-> pairs[i].obj]

\* The operation of a call: states() and purviews() leave resolve()'s
\* default (all_maxima), partitions() passes all_minima.
operation_of(args) ==
    CASE args.entry = "partitions" -> "all_minima"
      [] args.entry = "resolve" -> args.operation
      [] OTHER -> "all_maxima"

\* The first exception of evaluating the keys, in the order the code
\* evaluates them: the default's key when there is a default (line 91),
\* then the objects' keys as the operation consumes the pairs (line 92).
KeyOrder(args) ==
    (IF args.default # NO_DEFAULT THEN << args.default >> ELSE << >>)
    \o args.objects

FirstRaising(names, order) ==
    {i \in DOMAIN order : sort_key_outcome(names, order[i]).error # ""}

RECURSIVE SumCalls(_, _, _, _)
SumCalls(names, order, upto, field) ==
    IF upto = 0 THEN 0
    ELSE sort_key_outcome(names, order[upto])[field]
         + SumCalls(names, order, upto - 1, field)

\* The body of resolve() up to its first yield, lines 84-93.
resolve_body(args) ==
    LET names == strategy_list(args.strategy)
        order == KeyOrder(args)
        bad   == FirstRaising(names, order)
        last  == IF bad = {} THEN Len(order) ELSE Min(bad)
        calls == [score |-> SumCalls(names, order, last, "score"),
                  none  |-> SumCalls(names, order, last, "none")]
    IN  IF is_none_sentinel(args.strategy)
        THEN [error |-> "",
              pending |-> iter_with_default(args.objects, args.default),
              calls |-> [score |-> 0, none |-> 0]]
        ELSE IF bad # {}
        THEN [error |-> sort_key_outcome(names, order[last]).error,
              pending |-> << >>, calls |-> calls]
        ELSE [error |-> "",
              pending |-> unzip_objects(
                  all_extrema(operation_of(args),
                              zip_keys(names, args.objects),
                              wrap_default(names, args.default))),
              calls |-> calls]

NoArgs ==
    [entry |-> "resolve", objects |-> << >>,
     strategy |-> [bare |-> TRUE, names |-> << "NONE" >>],
     operation |-> "all_maxima", default |-> NO_DEFAULT]

ResolveIdle ==
    /\ r_args = NoArgs
    /\ r_state = "idle"
    /\ r_pending = << >>
    /\ r_out = << >>
    /\ r_error = ""
    /\ r_calls = [score |-> 0, none |-> 0]

Entries == {"resolve", "states", "partitions", "purviews"}

ResolveInit ==
    /\ r_args \in
         [entry : Entries, objects : SeqsUpTo(Candidates, MaxObjs),
          strategy : StrategyArgs, operation : {"all_maxima", "all_minima"},
          default : {NO_DEFAULT, DefaultObj}]
    /\ r_args.entry # "resolve" => r_args.operation = "all_maxima"
    /\ r_state = "uncalled"
    /\ r_pending = << >>
    /\ r_out = << >>
    /\ r_error = ""
    /\ r_calls = [score |-> 0, none |-> 0]

\* The call resolve(objects, strategy, ...), or states(), partitions(),
\* purviews(): resolve is a generator function, so the call makes the
\* generator object and runs none of the body.
ResolveCall ==
    /\ r_state = "uncalled"
    /\ r_state' = "created"
    /\ UNCHANGED << r_args, r_pending, r_out, r_error, r_calls >>
    /\ UNCHANGED outsideResolve

\* An extremum of no pairs with no default: what the operation does then
\* is not fixed (it returns nothing or raises ValueError).
EmptyWithoutDefault(args) ==
    /\ ~is_none_sentinel(args.strategy)
    /\ args.objects = << >>
    /\ args.default = NO_DEFAULT

\* The caller's first next(): the body runs to its first yield, to its end
\* or to an exception.
ResolveFirstNext ==
    /\ r_state = "created"
    /\ LET b == resolve_body(r_args)
       IN  /\ r_calls' = b.calls
           /\ IF EmptyWithoutDefault(r_args)
              THEN r_error' \in {"", "ValueError"}
              ELSE r_error' = b.error
           /\ IF r_error' # ""
              THEN /\ r_state' = "raised"
                   /\ UNCHANGED << r_pending, r_out >>
              ELSE IF b.pending = << >>
              THEN /\ r_state' = "finished"
                   /\ UNCHANGED << r_pending, r_out >>
              ELSE /\ r_state' = "suspended"
                   /\ r_out' = << Head(b.pending) >>
                   /\ r_pending' = Tail(b.pending)
    /\ UNCHANGED r_args
    /\ UNCHANGED outsideResolve

\* A later next(): the loop of line 93 yields the next object or ends.
ResolveNext ==
    /\ r_state = "suspended"
    /\ IF r_pending = << >>
       THEN /\ r_state' = "finished"
            /\ UNCHANGED << r_pending, r_out >>
       ELSE /\ r_out' = Append(r_out, Head(r_pending))
            /\ r_pending' = Tail(r_pending)
            /\ UNCHANGED r_state
    /\ UNCHANGED << r_args, r_error, r_calls >>
    /\ UNCHANGED outsideResolve

\* ------------------------------------------------------------ composition
\* phi_structure() and PhiStructure.  A distinction is a number d of
\* 1..MaxDist, its phi is 2 * d.  Which distinctions are congruent with the
\* SIA's system state, and what compute.ces() would return, are given with
\* the arguments.  A relation set is a record of the distinctions it was
\* computed over and of its sum_phi().

Distinctions == 1..MaxDist

RECURSIVE sum_phis(_)
sum_phis(ds) ==
    IF ds = {} THEN 0
    ELSE LET d == CHOOSE x \in ds : TRUE IN 2 * d + sum_phis(ds \ {d})

NoneDistinctions == [given |-> FALSE, value |-> {}]
NoneRelations == [given |-> FALSE, over |-> {}, sum_phi |-> 0]

\* CauseEffectStructure.resolve_congruence(system_state).
resolve_congruence(ds, congruent) == ds \cap congruent

\* compute_relations(distinctions): one relation of phi 2 per pair.
compute_relations(ds) ==
    [given |-> TRUE, over |-> ds,
     sum_phi |-> Cardinality(ds) * (Cardinality(ds) - 1)]

ComposeArgs ==
    [sia : {"None", "supplied"},
     distinctions : {NoneDistinctions}
         \cup {[given |-> TRUE, value |-> v] : v \in SUBSET Distinctions},
     relations : {NoneRelations}
         \cup {[given |-> TRUE, over |-> Distinctions, sum_phi |-> r] :
                  r \in {0, 2}},
     ces : SUBSET Distinctions,
     congruent : SUBSET Distinctions]

ComposeIdle ==
    /\ c_pc = "idle"
    /\ c_args = [sia |-> "None", distinctions |-> NoneDistinctions,
                 relations |-> NoneRelations, ces |-> {}, congruent |-> {}]
    /\ c_sia = "None"
    /\ c_dist = NoneDistinctions
    /\ c_rel = NoneRelations
    /\ c_big_phi = NoResult
    /\ c_sum_d = NoResult
    /\ c_calls = [sum |-> 0, sum_phi |-> 0]

ComposeInit ==
    /\ c_pc = "start"
    /\ c_args \in ComposeArgs
    /\ c_sia = c_args.sia
    /\ c_dist = c_args.distinctions
    /\ c_rel = c_args.relations
    /\ c_big_phi = NoResult
    /\ c_sum_d = NoResult
    /\ c_calls = [sum |-> 0, sum_phi |-> 0]

\* phi_structure(), lines 458-459.
ComposeSia ==
    /\ c_pc = "start"
    /\ c_sia' = IF c_sia = "None" THEN "computed" ELSE c_sia
    /\ c_pc' = "sia"
    /\ UNCHANGED << c_args, c_dist, c_rel, c_big_phi >>
    /\ UNCHANGED << c_sum_d, c_calls >>
    /\ UNCHANGED outsideCompose

\* phi_structure(), lines 462-463.
ComposeCes ==
    /\ c_pc = "sia"
    /\ c_dist' = IF ~c_dist.given
                 THEN [given |-> TRUE, value |-> c_args.ces]
                 ELSE c_dist
    /\ c_pc' = "ces"
    /\ UNCHANGED << c_args, c_sia, c_rel, c_big_phi >>
    /\ UNCHANGED << c_sum_d, c_calls >>
    /\ UNCHANGED outsideCompose

\* phi_structure(), line 465: the distinctions to go on with.
filtered_supplied_kept(distinctions, args) ==
    IF args.distinctions.given THEN distinctions
    ELSE [given |-> TRUE,
          value |-> resolve_congruence(distinctions.value, args.congruent)]

filtered(distinctions, args) ==
    [given |-> TRUE,
     value |-> resolve_congruence(distinctions.value, args.congruent)]

ComposeFilter ==
    /\ c_pc = "ces"
    /\ c_dist' = filtered(c_dist, c_args)
    /\ c_pc' = "filtered"
    /\ UNCHANGED << c_args, c_sia, c_rel, c_big_phi >>
    /\ UNCHANGED << c_sum_d, c_calls >>
    /\ UNCHANGED outsideCompose

\* phi_structure(), lines 468-469.
ComposeRelations ==
    /\ c_pc = "filtered"
    /\ c_rel' = IF ~c_rel.given THEN compute_relations(c_dist.value)
                ELSE c_rel
    /\ c_pc' = "relations"
    /\ UNCHANGED << c_args, c_sia, c_dist, c_big_phi >>
    /\ UNCHANGED << c_sum_d, c_calls >>
    /\ UNCHANGED outsideCompose

\* phi_structure(), lines 471-475: the PhiStructure is built and returned.
ComposeReturn ==
    /\ c_pc = "relations"
    /\ c_pc' = "returned"
    /\ UNCHANGED << c_args, c_sia, c_dist, c_rel, c_big_phi >>
    /\ UNCHANGED << c_sum_d, c_calls >>
    /\ UNCHANGED outsideCompose

\* PhiStructure.sum_phi_distinctions and sum_phi_relations, lines 409-420.
sum_phi_distinctions(ds) == sum_phis(ds.value)

sum_phi_relations(rel) == rel.sum_phi

\* PhiStructure.big_phi, lines 422-428.
big_phi_distinctions_only(cached, ds, rel) ==
    IF cached # NoResult THEN cached ELSE sum_phi_distinctions(ds)

big_phi(cached, ds, rel) ==
    IF cached # NoResult THEN cached
    ELSE sum_phi_distinctions(ds) + sum_phi_relations(rel)

\* The caller reads big_phi of the returned PhiStructure for the first
\* time: the property reads sum_phi_distinctions, which computes and stores
\* the sum unless it is stored already, and sum_phi_relations, which
\* invokes relations.sum_phi().  (A later read returns _big_phi and changes
\* nothing.)
ReadBigPhi ==
    /\ c_pc = "returned"
    /\ c_big_phi = NoResult
    /\ c_big_phi' = big_phi(c_big_phi, c_dist, c_rel)
    /\ c_sum_d' = sum_phi_distinctions(c_dist)
    /\ c_calls' = [sum |-> IF c_sum_d = NoResult THEN c_calls.sum + 1
                           ELSE c_calls.sum,
                   sum_phi |-> c_calls.sum_phi + 1]
    /\ UNCHANGED << c_pc, c_args, c_sia, c_dist, c_rel >>
    /\ UNCHANGED outsideCompose

\* The caller reads sum_phi_distinctions, lines 413-420, for the first time
\* (a later read returns _sum_phi_distinctions and changes nothing).
ReadSumPhiDistinctions ==
    /\ c_pc = "returned"
    /\ c_sum_d = NoResult
    /\ c_sum_d' = sum_phi_distinctions(c_dist)
    /\ c_calls' = [c_calls EXCEPT !.sum = @ + 1]
    /\ UNCHANGED << c_pc, c_args, c_sia, c_dist, c_rel, c_big_phi >>
    /\ UNCHANGED outsideCompose

\* The caller reads sum_phi_relations, lines 409-411: the property stores
\* nothing and invokes relations.sum_phi() on every read.
ReadSumPhiRelations ==
    /\ c_pc = "returned"
    /\ c_calls.sum_phi < MaxReads
    /\ c_calls' = [c_calls EXCEPT !.sum_phi = @ + 1]
    /\ UNCHANGED << c_pc, c_args, c_sia, c_dist, c_rel, c_big_phi, c_sum_d >>
    /\ UNCHANGED outsideCompose

\* -------------------------------------------------------- complex search
\* all_complexes(), irreducible_complexes(), maximal_complex().  The phi of
\* the SIA of a subsystem is any number of units, so that phi values within
\* the tolerance of each other and of zero occur.

ComplexPhis == 0..(2 * MaxPhi + 2)

\* irreducible_complexes(): filter(None, ...) keeps the truthy SIAs.
irreducible_all(phi) == TRUE

irreducible(phi) == is_positive(phi)

\* One step of max(): the first item, and then each item that is greater
\* (Orderable.__gt__ on order_by(), the phi) than the maximum so far.
max_step(best, pos, phis) ==
    IF best = 0 \/ PyPhiFloat_lt(phis[best], phis[pos]) THEN pos ELSE best

ComplexIdle ==
    /\ m_sias = << >>
    /\ m_pos = 0
    /\ m_best = 0
    /\ m_result = 0

ComplexInit ==
    /\ m_sias \in SeqsUpTo(ComplexPhis, MaxSubsystems)
    /\ m_pos = 0
    /\ m_best = 0
    /\ m_result = NoResult

\* max() pulls the next SIA: all_complexes() computes it for the next
\* reachable subsystem, the filter drops it or passes it on to max().
ComplexNext ==
    /\ m_result = NoResult
    /\ m_pos < Len(m_sias)
    /\ m_pos' = m_pos + 1
    /\ m_best' = IF irreducible(m_sias[m_pos + 1])
                 THEN max_step(m_best, m_pos + 1, m_sias)
                 ELSE m_best
    /\ UNCHANGED << m_sias, m_result >>
    /\ UNCHANGED outsideComplex

\* The subsystems are exhausted: max() returns its maximum, or the default
\* NullPhiStructure() when nothing reached it.
ComplexReturn ==
    /\ m_result = NoResult
    /\ m_pos = Len(m_sias)
    /\ m_result' = m_best
    /\ UNCHANGED << m_sias, m_pos, m_best >>
    /\ UNCHANGED outsideComplex

\* ------------------------------------------------------ candidate space
\* sia(), lines 279-302 and 320-333.  An iterable is the set of its items:
\* the generated partitions are P1..P3, a caller's list is [P1], and the
\* string "GENERAL" is its characters.

Generated == {"P1", "P2", "P3"}
GENERAL == {"G", "E", "N", "R", "A", "L"}
CallerList == {"P1"}

PartArgs ==
    [partitions : {NoneArg, GENERAL, CallerList},
     partition_scheme : {"GENERAL", "DIRECTED_BI"},
     len : {1, 2},
     strong : SUBSET Generated]

\* is_disconnecting_partition, lines 287-290; strong is the set of the
\* partitions whose cut subsystem is strongly connected.
is_disconnecting_partition(partition, args) ==
    (partition \notin args.strong) \/ args.len = 1

\* system_partitions(..., filter_func=filter_func).
system_partitions(filter_func, args) ==
    IF filter_func = "None" THEN Generated
    ELSE {q \in Generated : is_disconnecting_partition(q, args)}

PartIdle ==
    /\ p_pc = "idle"
    /\ p_args = [partitions |-> NoneArg, partition_scheme |-> "GENERAL",
                 len |-> 1, strong |-> {}]
    /\ p_filter = "None"
    /\ p_cands = {}
    /\ p_evaluated = {}

PartInit ==
    /\ p_pc = "start"
    /\ p_args \in PartArgs
    /\ p_filter = "None"
    /\ p_cands = {}
    /\ p_evaluated = {}

\* sia(), lines 283-292.
DefineFilter ==
    /\ p_pc = "start"
    /\ p_filter' = IF p_args.partitions = GENERAL
                   THEN "is_disconnecting_partition"
                   ELSE "None"
    /\ p_pc' = "filter"
    /\ UNCHANGED << p_args, p_cands, p_evaluated >>
    /\ UNCHANGED outsidePart

\* sia(), lines 294-302.
SelectPartitions ==
    /\ p_pc = "filter"
    /\ p_cands' = fallback(p_args.partitions,
                           system_partitions(p_filter, p_args))
    /\ p_pc' = "partitions"
    /\ UNCHANGED << p_args, p_filter, p_evaluated >>
    /\ UNCHANGED outsidePart

\* sia(), lines 320-333: evaluate_partition is mapped over partitions.
MapPartitions ==
    /\ p_pc = "partitions"
    /\ p_evaluated' = p_cands
    /\ p_pc' = "mapped"
    /\ UNCHANGED << p_args, p_filter, p_cands >>
    /\ UNCHANGED outsidePart

\* ------------------------------------------------------------------ nodes
\* node.py.  Two Node objects, a and b.  A state space is a tuple of
\* states 0, 1, 2; None is NoneState.  The TPM, the inputs and the outputs
\* of a node are those its index has in the one network modelled here.

NoneState == 0 - 1

NodeNames == {"a", "b"}

NoNode ==
    [index |-> 0 - 1, state_space |-> << >>, state |-> NoneState, hash |-> 0]

\* The network_state argument of generate_nodes(): None (the empty tuple
\* here) or a state for each of the two nodes of the network.
NetworkStates == {<< >>} \cup [1..2 -> {0, 2}]

\* generate_nodes(), lines 285-290 and 318-327: the attrs of the DataArray
\* made for the node of this index; the state is None without a network
\* state.
generate_nodes(index, state_space, network_state) ==
    [index |-> index, state_space |-> state_space,
     state |-> IF network_state = << >> THEN NoneState
               ELSE network_state[index + 1]]

\* The state_space setter, lines 107-121: what it accepts.
state_space_ok(value) ==
    Cardinality(Range(value)) = Len(value) /\ Len(value) >= 2

\* The state setter, lines 128-135: what it accepts.
state_ok(value, state_space) == value \in Range(state_space)

\* hash((index, hash(tpm), inputs, outputs, state_space, state)), lines
\* 66-75: a number that differs whenever index, state space or state do.
node_hash(index, state_space, state) ==
    (index * 10 + Len(state_space)) * 10 + state + 1

\* Node.__eq__, lines 143-161.
node_eq(x, y) ==
    /\ x.index = y.index
    /\ x.state_space = y.state_space
    /\ x.state = y.state

NoCall ==
    [op |-> "none", network_state |-> << >>,
     attrs |-> generate_nodes(0, << >>, << >>), error |-> ""]

NodeIdle ==
    /\ n_nodes = [x \in NodeNames |-> NoNode]
    /\ n_last = NoCall

\* generate_nodes() makes the DataArray of one node and Node(dataarray)
\* wraps it, lines 49-75: the two setters run, then the hash is computed
\* and stored.  A setter that raises leaves no Node.
NodeConstruct(x) ==
    /\ n_nodes[x] = NoNode
    /\ \E index \in {0, 1}, network_state \in NetworkStates,
          state_space \in {<< 0, 1 >>, << 0, 1, 2 >>, << 0 >>, << 0, 0 >>} :
          LET d  == generate_nodes(index, state_space, network_state)
              ok == /\ state_space_ok(d.state_space)
                    /\ state_ok(d.state, d.state_space)
          IN  /\ n_last' = [op |-> "init", network_state |-> network_state,
                            attrs |-> d,
                            error |-> IF ok THEN "" ELSE "ValueError"]
              /\ n_nodes' =
                     IF ok
                     THEN [n_nodes EXCEPT ![x] =
                              [index |-> d.index,
                               state_space |-> d.state_space,
                               state |-> d.state,
                               hash |-> node_hash(d.index, d.state_space,
                                                  d.state)]]
                     ELSE n_nodes
    /\ UNCHANGED outsideNode

\* node.state = value, lines 128-135: a value outside the state space
\* raises and changes nothing; the stored hash is not recomputed.
SetState(x) ==
    /\ n_nodes[x] # NoNode
    /\ \E value \in {NoneState, 0, 1, 2} :
          n_nodes' = IF state_ok(value, n_nodes[x].state_space)
                     THEN [n_nodes EXCEPT ![x].state = value]
                     ELSE n_nodes
    /\ UNCHANGED n_last
    /\ UNCHANGED outsideNode

\* node.state_space = value, lines 107-121: an invalid tuple raises and
\* changes nothing; the state is not looked at and the stored hash is not
\* recomputed.
SetStateSpace(x) ==
    /\ n_nodes[x] # NoNode
    /\ \E value \in {<< 0, 1 >>, << 0, 1, 2 >>, << 0 >>, << 0, 0 >>} :
          n_nodes' = IF state_space_ok(value)
                     THEN [n_nodes EXCEPT ![x].state_space = value]
                     ELSE n_nodes
    /\ UNCHANGED n_last
    /\ UNCHANGED outsideNode

\* -------------------------------------------------------- specifications
SiaIdle ==
    /\ pc = "idle"
    /\ nparts = 0
    /\ directions = NoneArg
    /\ system_state = [d \in Directions |-> 0]
    /\ launched = 0
    /\ running = 0
    /\ shortcircuit = FALSE
    /\ sias = << >>
    /\ obj = << >>
    /\ lists = << >>
    /\ idx = 0
    /\ mip_sia = NoResult
    /\ mip_key = initial_mip_key
    /\ ties = 0
    /\ result = NoResult
    /\ json = NoJson

OthersIdle == ComplexIdle /\ PartIdle /\ NodeIdle

Init == SiaInit /\ ResolveIdle /\ ComposeIdle /\ OthersIdle

Next ==
    \/ ReturnNull
    \/ StartMap
    \/ Dispatch
    \/ Complete
    \/ Cancel
    \/ StartFold
    \/ FoldStep
    \/ Return
    \/ ReadTies
    \/ ToJson

Spec == Init /\ [][Next]_vars

InitResolve == ResolveInit /\ SiaIdle /\ ComposeIdle /\ OthersIdle

NextResolve ==
    \/ ResolveCall
    \/ ResolveFirstNext
    \/ ResolveNext

SpecResolve == InitResolve /\ [][NextResolve]_vars

InitCompose == ComposeInit /\ SiaIdle /\ ResolveIdle /\ OthersIdle

NextCompose ==
    \/ ComposeSia
    \/ ComposeCes
    \/ ComposeFilter
    \/ ComposeRelations
    \/ ComposeReturn
    \/ ReadBigPhi
    \/ ReadSumPhiDistinctions
    \/ ReadSumPhiRelations

SpecCompose == InitCompose /\ [][NextCompose]_vars

InitComplex ==
    /\ ComplexInit /\ SiaIdle /\ ResolveIdle /\ ComposeIdle /\ PartIdle
    /\ NodeIdle

NextComplex ==
    \/ ComplexNext
    \/ ComplexReturn

SpecComplex == InitComplex /\ [][NextComplex]_vars

InitPart ==
    /\ PartInit /\ SiaIdle /\ ResolveIdle /\ ComposeIdle /\ ComplexIdle
    /\ NodeIdle

NextPart ==
    \/ DefineFilter
    \/ SelectPartitions
    \/ MapPartitions

SpecPart == InitPart /\ [][NextPart]_vars

InitNode ==
    /\ NodeIdle /\ SiaIdle /\ ResolveIdle /\ ComposeIdle /\ ComplexIdle
    /\ PartIdle

NextNode ==
    \/ \E x \in NodeNames : NodeConstruct(x)
    \/ \E x \in NodeNames : SetState(x)
    \/ \E x \in NodeNames : SetStateSpace(x)

SpecNode == InitNode /\ [][NextNode]_vars

\* ---------------------------------------------------------------- claims

\* The SIAs that the executor delivered to the fold.
Delivered == Range(sias)

KeyOf(s) == sia_minimization_key(obj[s])

\* sia() has returned from the fold (not from the null short-circuit).
FoldDone == pc = "done" /\ has_no_cause_or_effect(system_state) = << >>

\* The final tie list of the fold.
FinalTies == lists[ties]

Orderings(seq) ==
    {q \in [DOMAIN seq -> Range(seq)] : \A i, j \in DOMAIN seq : q[i] = q[j] => i = j}

\* C1: Minimization correctness.  After a fold over a non-empty sequence of
\* delivered candidates, the key (normalized_phi, -phi) of the returned SIA
\* is <= the key of every delivered candidate, and the tie list attached to
\* the returned SIA holds exactly the delivered candidates whose key equals
\* the winner's key.  (Keys are compared as the program compares them.)
C1_MinimizationCorrect ==
    (FoldDone /\ sias # << >>) =>
        /\ \A c \in Delivered : TupleLe(KeyOf(result), KeyOf(c))
        /\ Range(ties_property(result))
             = {c \in Delivered : TupleEq(KeyOf(c), KeyOf(result))}

\* C2: Tie-set symmetry.  After sia() returns from the fold, every SIA in
\* the final tie list T, the winner included, has T itself (the same list
\* object) as its ties, and T contains it.
C2_TieSetSymmetry ==
    FoldDone =>
        /\ result \in Range(FinalTies)
        /\ \A s \in Range(FinalTies) :
              /\ obj[s].ties_attr = ties
              /\ s \in Range(ties_property(s))

\* C2 witness: sia() returned with a tie list of at least two SIAs.
C2_Witness == FoldDone /\ Len(FinalTies) >= 2 /\ obj[result].ties_attr = ties

\* C3 (as claimed): every SIA produced during one minimization, the
\* candidates that lost included, reports the final tie list as its ties.
C3_AllProducedSeeWinningTies ==
    FoldDone => \A s \in Delivered : ties_property(s) = FinalTies

\* C3 (amended): the SIAs in the final tie list report that list as their
\* ties; every other SIA produced during the minimization has no tie list
\* attached and reports only itself.
C3_OnlyTiedSeeWinningTies ==
    FoldDone =>
        \A s \in Delivered \cup {0} :
            IF s \in Range(FinalTies)
            THEN obj[s].ties_attr = ties /\ ties_property(s) = FinalTies
            ELSE obj[s].ties_attr = 0 /\ ties_property(s) = << s >>

\* C3 witness: two candidates tied with each other as the best, and a later
\* candidate beat them both.
C3_Witness ==
    /\ FoldDone
    /\ \E s, t \in Delivered :
          /\ s < t /\ t < result
          /\ TupleEq(KeyOf(s), KeyOf(t))
          /\ s \notin Range(FinalTies) /\ t \notin Range(FinalTies)

\* C4: Order independence of the tie set.  Folding the delivered results in
\* any other delivery order yields the same set of SIAs in the final tie
\* list as the order that was taken.
C4_TieSetOrderIndependent ==
    FoldDone =>
        \A q \in Orderings(sias) :
            Range(fold_all(q, obj).ties) = Range(FinalTies)

\* C5: Zero-phi short-circuit.  If a falsy (zero-phi) result was delivered
\* to the fold, the SIA that sia() returns is falsy: no positive-phi
\* candidate is returned.
C5_ZeroPhiShortCircuit ==
    (FoldDone /\ \E c \in Delivered : is_falsy(obj[c])) => is_falsy(obj[result])

\* C6: Cancellation safety.  Once a zero-phi result has been folded, a
\* result folded afterwards never changes the current best SIA.
C6_CancellationSafe ==
    [][ (pc = "fold" /\ \E j \in 1..(idx - 1) : is_falsy(obj[sias[j]]))
            => mip_sia' = mip_sia ]_vars

\* C7: Null short-circuit.  If the intrinsic information of the intact system
\* is <= 0 in a direction, evaluate_partition() is never invoked and sia()
\* returns a null SIA (phi = 0, partition = None) whose reasons contain
\* NO_CAUSE exactly when the cause value is <= 0 and NO_EFFECT exactly when
\* the effect value is <= 0.
C7_NullShortCircuit ==
    (system_state["CAUSE"] <= 0 \/ system_state["EFFECT"] <= 0) =>
        /\ launched = 0
        /\ pc \in {"start", "done"}
        /\ pc = "done" =>
              /\ result = 0
              /\ obj[result].phi = 0
              /\ obj[result].partition = NonePartition
              /\ ("NO_CAUSE" \in Range(obj[result].reasons))
                    <=> (system_state["CAUSE"] <= 0)
              /\ ("NO_EFFECT" \in Range(obj[result].reasons))
                    <=> (system_state["EFFECT"] <= 0)

\* C7 witness: a non-empty candidate space, no cause but an effect, and the
\* null SIA returned.
C7_Witness ==
    /\ pc = "done"
    /\ nparts > 0
    /\ system_state["CAUSE"] = 0
    /\ system_state["EFFECT"] > 0
    /\ obj[result].reasons = << "NO_CAUSE" >>

\* C8: Empty candidate space.  With positive intrinsic information in both
\* directions and no candidate partition, sia() returns a null SIA whose
\* reasons are exactly [NO_VALID_PARTITIONS] and whose attached tie list
\* holds only that SIA.
C8_EmptyCandidateSpace ==
    (pc = "done" /\ nparts = 0
       /\ system_state["CAUSE"] > 0 /\ system_state["EFFECT"] > 0) =>
        /\ result = 0
        /\ obj[result].phi = 0
        /\ obj[result].partition = NonePartition
        /\ obj[result].reasons = << "NO_VALID_PARTITIONS" >>
        /\ obj[result].ties_attr = ties
        /\ ties_property(result) = << result >>

\* C8 witness: sia() returned from the fold over an empty candidate space.
C8_Witness == FoldDone /\ nparts = 0 /\ sias = << >> /\ result = 0

\* C9 (as claimed): for every value of the directions argument, the phi of
\* an SIA that evaluate_partition() produced is the minimum of the phi of its
\* cause result and the phi of its effect result.
C9_PhiIsMinOfCauseAndEffect ==
    \A s \in Delivered : obj[s].phi = Min({obj[s].cause, obj[s].effect})

\* C9 (amended): the phi of an SIA that evaluate_partition() produced is the
\* minimum over the requested directions (both by default) of the phi of the
\* result in that direction; with the default it is the minimum of the
\* cause phi and the effect phi.
C9_PhiIsMinOfRequested ==
    \A s \in Delivered :
        /\ directions = NoneArg =>
              obj[s].phi = Min({obj[s].cause, obj[s].effect})
        /\ directions = {"CAUSE"} => obj[s].phi = obj[s].cause
        /\ directions = {"EFFECT"} => obj[s].phi = obj[s].effect

\* C9 witness: a single direction was requested and the other direction's
\* phi is the smaller one.
C9_Witness ==
    \E s \in Delivered :
        directions = {"CAUSE"} /\ obj[s].effect < obj[s].cause

\* C10: for every SIA that evaluate_partition() produced, normalized_phi is
\* phi times the partition's normalization factor 1/d, where d comes from the
\* partition's own normalization_factor() when it has one and is
\* |from_nodes| * |to_nodes| otherwise.
C10_NormalizedPhi ==
    \A s \in Delivered :
        LET p == obj[s].partition
            d == IF p.own # 0 THEN p.own ELSE p.from_nodes * p.to_nodes
        IN  obj[s].normalized_phi * d = obj[s].phi

\* C10 witness: positive-phi SIAs of a partition with its own factor and of
\* one without.
C10_Witness ==
    \E s, t \in Delivered :
        /\ obj[s].partition.own # 0 /\ obj[s].phi > 0
        /\ obj[t].partition.own = 0 /\ obj[t].phi > 0

\* ------------------------------------------------ claims on tie resolution
NoneSentinel == [bare |-> TRUE, names |-> << "NONE" >>]

\* The strategy names only registered scoring functions other than NONE's.
ScoringStrategy(strategy) ==
    /\ strategy # NoneSentinel
    /\ \A i \in DOMAIN strategy.names :
           strategy.names[i] \in Registered \ {"NONE"}

\* C11: resolve() with the sentinel "NONE" calls no scoring function and
\* raises nothing; once exhausted it has yielded the input objects, same
\* elements in the same order, when there are any, and the supplied default
\* alone when there are none.
C11_NoneYieldsObjectsUnchanged ==
    r_args.strategy = NoneSentinel /\ r_state # "uncalled" =>
        /\ r_calls.score = 0
        /\ r_error = ""
        /\ r_state # "raised"
        /\ (r_state = "finished" /\ r_args.objects # << >>
               => r_out = r_args.objects)
        /\ (r_state = "finished" /\ r_args.objects = << >>
                /\ r_args.default # NO_DEFAULT
               => r_out = << r_args.default >>)

C11_Witness ==
    /\ r_args.strategy = NoneSentinel
    /\ r_state = "finished"
    /\ Len(r_args.objects) = MaxObjs
    /\ r_out = r_args.objects

\* The objects whose key tuple no other object's key tuple beats, in the
\* order of the input.
ExtremalObjects(args) ==
    LET names == args.strategy.names
        Beats(a, b) == IF operation_of(args) = "all_maxima"
                       THEN KeyLt(sort_key(names, b), sort_key(names, a))
                       ELSE KeyLt(sort_key(names, a), sort_key(names, b))
        Keep(o) == \A i \in DOMAIN args.objects : ~Beats(args.objects[i], o)
    IN  SelectSeq(args.objects, Keep)

\* C12: resolve() with a chain of scoring strategies yields every object
\* whose key tuple is extremal under lexicographic comparison; for A (phi 1,
\* purview size 2) and B (phi 1, purview size 3), ["PHI", "PURVIEW_SIZE"]
\* with all-maxima yields exactly B and ["NEGATIVE_PURVIEW_SIZE"] exactly A.
C12_EveryExtremalCandidate ==
    (/\ ScoringStrategy(r_args.strategy)
     /\ r_args.objects # << >>
     /\ r_state = "finished") =>
        /\ r_out = ExtremalObjects(r_args)
        /\ (/\ Range(r_args.objects) = {CandA, CandB}
            /\ operation_of(r_args) = "all_maxima"
            /\ r_args.strategy.names = << "PHI", "PURVIEW_SIZE" >>
            => Range(r_out) = {CandB})
        /\ (/\ Range(r_args.objects) = {CandA, CandB}
            /\ operation_of(r_args) = "all_maxima"
            /\ r_args.strategy.names = << "NEGATIVE_PURVIEW_SIZE" >>
            => Range(r_out) = {CandA})

C12_Witness ==
    /\ r_state = "finished"
    /\ r_args.objects = << CandA, CandC >>
    /\ r_args.strategy.names = << "NEGATIVE_PURVIEW_SIZE", "PURVIEW_SIZE" >>
    /\ r_out = << CandA, CandC >>

\* C13: with an empty collection, a scoring strategy other than "NONE" and a
\* supplied default, resolve() and the three resolvers raise nothing and
\* yield exactly one element, the default object itself, under all-maxima
\* and under all-minima.
C13_EmptyYieldsDefaultObject ==
    (/\ ScoringStrategy(r_args.strategy)
     /\ r_args.objects = << >>
     /\ r_args.default # NO_DEFAULT
     /\ r_state # "uncalled") =>
        /\ r_error = ""
        /\ r_state \in {"created", "suspended", "finished"}
        /\ (r_state \in {"suspended", "finished"}
               => r_out = << r_args.default >> /\ r_pending = << >>)

C13_Witness ==
    /\ ScoringStrategy(r_args.strategy)
    /\ r_args.objects = << >>
    /\ operation_of(r_args) = "all_minima"
    /\ r_state = "finished"
    /\ r_out = << DefaultObj >>

HasUnregistered(strategy) ==
    \E i \in DOMAIN strategy.names : strategy.names[i] \notin Registered

\* C14: a strategy name that is not registered makes the call to resolve(),
\* states(), partitions() or purviews() itself raise: once the call is
\* over, the exception has been raised and nothing is left to iterate.
C14_UnregisteredRaisesAtCall ==
    HasUnregistered(r_args.strategy) /\ r_state # "uncalled" =>
        r_state = "raised" /\ r_error # ""

\* C15: every invocation of the scoring function registered under "NONE"
\* raises NotImplementedError (so the first one is the last), and resolve()
\* with the bare string "NONE" never invokes it.
C15_NoneFunctionRaises ==
    /\ r_calls.none > 0 =>
           /\ r_calls.none = 1
           /\ r_state = "raised"
           /\ r_error = "NotImplementedError"
    /\ r_args.strategy = NoneSentinel => r_calls.none = 0

C15_Witness ==
    /\ r_calls.none = 1
    /\ r_error = "NotImplementedError"
    /\ r_args.strategy.names = << "PHI", "NONE" >>
    /\ r_args.objects # << >>

\* ------------------------------------------------ claims on serialization
\* C18: to_json() on an SIA returns its field mapping without the tie set
\* and leaves the SIA and its tie list as they were, whether its ties were
\* never read, defaulted to [self] by a read, or attached by set_ties().
C18_ToJsonOmitsTies ==
    [][json = NoJson /\ json' # NoJson =>
          /\ json'.status = "returned"
          /\ json'.dct = instance_dict(obj[result]) \ {"_ties"}
          /\ obj' = obj
          /\ lists' = lists]_vars

\* ------------------------------------------------- claims on composition
AllSupplied ==
    c_args.sia # "None" /\ c_args.distinctions.given /\ c_args.relations.given

\* C16 as stated: with SIA, distinctions and relations supplied, big_phi of
\* the returned PhiStructure is the sum of the phi of the distinctions in
\* the supplied set plus sum_phi() of the supplied relations.
C16_BigPhiOfSupplied ==
    AllSupplied /\ c_big_phi # NoResult =>
        c_big_phi = sum_phis(c_args.distinctions.value)
                    + c_args.relations.sum_phi

\* C16: with SIA, distinctions and relations supplied, big_phi of the
\* returned PhiStructure is the sum of the phi of those supplied
\* distinctions that are congruent with the SIA's system state plus
\* sum_phi() of the supplied relations.
C16_BigPhiOfCongruentSupplied ==
    AllSupplied /\ c_big_phi # NoResult =>
        c_big_phi = sum_phis(c_args.distinctions.value \cap c_args.congruent)
                    + c_args.relations.sum_phi

C16_Witness ==
    /\ AllSupplied
    /\ c_args.distinctions.value = Distinctions
    /\ c_args.congruent = {1}
    /\ c_args.relations.sum_phi = 2
    /\ c_big_phi = 4

\* The distinctions phi_structure() started from: the supplied ones, or
\* the ones compute.ces() returns.
RawDistinctions ==
    IF c_args.distinctions.given THEN c_args.distinctions.value
    ELSE c_args.ces

\* C20: the step that filters the distinctions runs with the SIA available
\* and the relations not yet computed, and leaves exactly the congruent
\* ones of the supplied or computed distinctions; relations are computed
\* only after that step, over the filtered distinctions.
C20_FilterBetweenSiaAndRelations ==
    [][/\ c_pc = "ces" /\ c_pc' # "ces" =>
              /\ c_sia # "None"
              /\ c_rel = c_args.relations
              /\ c_dist'.value = RawDistinctions \cap c_args.congruent
       /\ c_rel' # c_rel =>
              /\ c_pc = "filtered"
              /\ ~c_args.relations.given
              /\ c_dist.value = RawDistinctions \cap c_args.congruent
              /\ c_rel'.over = RawDistinctions \cap c_args.congruent
       /\ c_pc' = "returned" =>
              /\ c_dist'.value = RawDistinctions \cap c_args.congruent
              /\ c_rel'.given]_vars

C20_Witness ==
    /\ c_pc = "returned"
    /\ c_args.distinctions = [given |-> TRUE, value |-> Distinctions]
    /\ ~c_args.relations.given
    /\ c_args.congruent = {2}
    /\ c_rel.over = {2}

\* --------------------------------------------- claims on complex search
Irreducible == {i \in DOMAIN m_sias : is_positive(m_sias[i])}

\* C17: maximal_complex() pulls one SIA per reachable subsystem and returns
\* an irreducible one (phi positive beyond the tolerance) whose phi no other
\* irreducible SIA's phi exceeds, under the comparison of phi values the
\* program uses (equal up to the tolerance); when no SIA is irreducible it
\* returns the NullPhiStructure.
C17_MaximalComplex ==
    m_result # NoResult =>
        /\ m_pos = Len(m_sias)
        /\ Irreducible = {} => m_result = 0
        /\ Irreducible # {} =>
               /\ m_result \in Irreducible
               /\ \A j \in Irreducible :
                      ~PyPhiFloat_lt(m_sias[m_result], m_sias[j])

C17_Witness ==
    /\ m_sias = << 1, 2, 4 >>
    /\ m_result = 3

\* -------------------------------------------- claims on candidate space
\* C19: when sia() has defined the disconnection filter, the candidates
\* evaluate_partition is mapped over are exactly the generated partitions
\* whose cut subsystem is not strongly connected, and every generated
\* partition when the subsystem has a single node.
C19_FilteredCandidatesEvaluated ==
    p_pc = "mapped" /\ p_filter # "None" =>
        p_evaluated = IF p_args.len = 1 THEN Generated
                      ELSE Generated \ p_args.strong

\* --------------------------------------------------- claims on caching
\* C21: over any sequence of reads of big_phi, sum_phi_distinctions and
\* sum_phi_relations on one PhiStructure, the sum over distinctions.phis
\* and relations.sum_phi() are each invoked at most once.
C21_EachValueComputedOnce ==
    c_calls.sum <= 1 /\ c_calls.sum_phi <= 1

\* ------------------------------------------- claims on tie comparison
\* Two keys whose components each differ by no more than the tolerance.
WithinTolerance(a, b) ==
    Abs(a[1] - b[1]) <= EPSILON /\ Abs(a[2] - b[2]) <= EPSILON

\* Key k is smaller than key m by more than the tolerance in the first
\* component in which the two differ by more than the tolerance.
SmallerBeyondTolerance(k, m) ==
    \/ k[1] < m[1] - EPSILON
    \/ Abs(k[1] - m[1]) <= EPSILON /\ k[2] < m[2] - EPSILON

state_ok_or_none(value, state_space) ==
    value = NoneState \/ value \in Range(state_space)

\* C23: generate_nodes() called without a network_state gives nodes whose
\* state is None and raises nothing, and Node() raises nothing whenever the
\* state it is given is None or a member of the (valid) state space.
C23_StateIsOptional ==
    n_last.op = "init" /\ state_space_ok(n_last.attrs.state_space) =>
        /\ n_last.network_state = << >> =>
               n_last.attrs.state = NoneState /\ n_last.error = ""
        /\ state_ok_or_none(n_last.attrs.state, n_last.attrs.state_space) =>
               n_last.error = ""

\* ------------------------------------------- claims on "NONE" in a list
\* A list of strategies (registered names) that contains "NONE", handed
\* over with a non-empty collection.
ListedNone(args) ==
    /\ ~args.strategy.bare
    /\ \A i \in DOMAIN args.strategy.names :
           args.strategy.names[i] \in Registered
    /\ \E i \in DOMAIN args.strategy.names : args.strategy.names[i] = "NONE"
    /\ args.objects # << >>

\* C24: resolve() given a list of strategies that contains "NONE" and a
\* non-empty collection does not pass the objects through: nothing is
\* yielded, the call itself raises nothing, and the iteration invokes the
\* NONE scoring function and raises NotImplementedError.
C24_ListedNoneRaises ==
    ListedNone(r_args) =>
        /\ r_out = << >>
        /\ r_state \in {"uncalled", "created", "raised"}
        /\ r_state # "raised" => r_error = "" /\ r_calls.none = 0
        /\ r_state = "raised" =>
               r_error = "NotImplementedError" /\ r_calls.none = 1

C24_Witness ==
    /\ r_args.strategy = [bare |-> FALSE, names |-> << "NONE" >>]
    /\ Len(r_args.objects) = MaxObjs
    /\ r_args.default = NO_DEFAULT
    /\ r_state = "raised"
    /\ r_error = "NotImplementedError"

\* --------------------------------------------------- claims on node hash
\* C25: after any sequence of assignments to state and state_space, any
\* two Nodes that compare equal have equal hashes.
C25_EqualNodesEqualHashes ==
    \A x, y \in NodeNames :
        (n_nodes[x] # NoNode /\ n_nodes[y] # NoNode
            /\ node_eq(n_nodes[x], n_nodes[y]))
        => n_nodes[x].hash = n_nodes[y].hash

====
